---- MODULE Spec2Model ----
(***************************************************************************)
(* Model of src/server.js: the socket.io room server (room store, queue    *)
(* handlers, host-only relays).  One action per socket.on handler; every   *)
(* handler is synchronous, so it is one atomic step of the event loop.     *)
(***************************************************************************)
EXTENDS Integers, Sequences, FiniteSets, TLC

\* ------------------------------------------------------------- bounds ----
\* Handled socket events per behaviour (caps the otherwise endless run).
MaxEvents == 4
\* Longest queue add-to-queue is allowed to build (Array.push is unbounded).
MaxQueue == 2

\* ------------------------------------------------------------ domains ----
\* socket.id of the connections, in the order the transport opens them; an
\* id is never reused.
SocketIds == <<"s1", "s2">>
Sockets == {SocketIds[i] : i \in DOMAIN SocketIds}
\* Values generateRoomId can return (two of the 900000 six-digit strings).
GenIds == {"100000", "999999"}
\* Keys every object literal inherits from Object.prototype: rooms[k] is
\* truthy for them although no room was created.
ProtoKeys == {"constructor"}
\* Strings a client sends as roomId.
RoomArgs == GenIds \cup ProtoKeys
\* Names of socket.io groups: joined rooms, and one per socket id.
GroupNames == RoomArgs \cup Sockets
Songs == {"A", "B"}
Null == "null"
Undefined == "undefined"
\* The value of a .queue property that was never assigned.
UndefinedQueue == <<Undefined>>

\* A JavaScript number sent as index: halves/2, or NaN.
Num(h) == [nan |-> FALSE, halves |-> h]
NaN == [nan |-> TRUE, halves |-> 0]
\* -1, -0.5, 0, 1, ..., MaxQueue, and NaN.
IndexInputs == {Num(2 * i) : i \in -1 .. MaxQueue} \cup {Num(-1), NaN}
NoState == [isPlaying |-> FALSE, volume |-> 0, currentTime |-> 0, duration |-> 0]
PlayerStates == {[isPlaying |-> TRUE, volume |-> 50, currentTime |-> 3, duration |-> 9],
                 [isPlaying |-> FALSE, volume |-> 0, currentTime |-> 0, duration |-> 9]}
Volumes == {0, 50}

VARIABLES
    conn,       \* socket -> "new" | "connected" | "closed"
    groups,     \* socket.io adapter: group name -> sockets joined to it
    rooms,      \* own properties of the rooms object: roomId -> room
    inherited,  \* objects rooms[k] finds on the prototype chain, and the
                \* properties handlers have set on them
    crashed,    \* a handler threw: uncaught exception, the process is gone
    last,       \* the inbound event handled last
    out,        \* what that handler emitted, in order
    nEvents,    \* handled socket events
    view,       \* per connection and room: the queue last received for it
    addLog,     \* per room: songs of add-to-queue since the queue was reset
    playLog     \* per room: songs announced by play-song since then

vars == <<conn, groups, rooms, inherited, crashed, last, out, nEvents,
          view, addLog, playLog>>

\* ------------------------------------------------------------ helpers ----
\* parseInt(index): the number is written out and its leading integer is
\* read back, so a fraction is cut off toward zero: 1.5 -> 1, -0.5 -> -0.
ParseInt(x) ==
    IF x.nan THEN NaN
    ELSE IF x.halves >= 0 THEN Num(2 * (x.halves \div 2))
    ELSE Num(-2 * ((-x.halves) \div 2))

\* The array position an integer idx >= 0 names (sequences start at 1).
Pos(idx) == (idx.halves \div 2) + 1

\* rooms[roomId] is truthy.
HasRoom(id) == id \in DOMAIN rooms \/ id \in DOMAIN inherited

\* rooms[roomId]
Room(id) == IF id \in DOMAIN rooms THEN rooms[id] ELSE inherited[id]

\* idx >= 0 (false for NaN, true for -0).
NotNegative(idx) == ~idx.nan /\ idx.halves >= 0

\* idx < n (false for NaN), n an array length.
Below(idx, n) == ~idx.nan /\ idx.halves < 2 * n

\* queue.push(song)
Push(q, song) == Append(q, song)

\* Mutant of Shift: takes the element off the back, as queue.pop() would.
ShiftLast(q) == [item |-> q[Len(q)], rest |-> SubSeq(q, 1, Len(q) - 1)]

\* queue.shift(): the element taken off the front, and what is left.
Shift(q) == [item |-> Head(q), rest |-> Tail(q)]

\* Mutant of Splice: queue.splice(idx) without a delete count, which takes
\* out everything from position p on.
SpliceFrom(q, p) == [item |-> q[p], rest |-> SubSeq(q, 1, p - 1)]

\* Mutant of Splice: the element is read as queue[idx] and stays in the queue.
SpliceKeeps(q, p) == [item |-> q[p], rest |-> q]

\* queue.splice(idx, 1): the element taken out at position p, and what is left.
Splice(q, p) ==
    [item |-> q[p],
     rest |-> [i \in 1 .. Len(q) - 1 |-> IF i < p THEN q[i] ELSE q[i + 1]]]

\* Mutant of IoTo: io.emit, which reaches every connected socket.
IoToEveryone(g) == {s \in Sockets : conn[s] = "connected"}

\* io.to(g): every socket joined to group g.
IoTo(g) == IF g \in DOMAIN groups THEN groups[g] ELSE {}

\* Mutant of SocketTo: io.to(g), which does not leave the sender out.
SocketToAll(s, g) == IF g \in DOMAIN groups THEN groups[g] ELSE {}

\* socket.to(g): every socket joined to group g except the sender.
SocketTo(s, g) == IoTo(g) \ {s}

Inbound(type, s, roomId, song, index, volume, state) ==
    [type |-> type, sender |-> s, roomId |-> roomId, song |-> song,
     index |-> index, volume |-> volume, state |-> state]

\* An inbound event whose payload is the room id alone (or nothing).
Event(type, s, roomId) == Inbound(type, s, roomId, Undefined, NaN, 0, NoState)

\* An emission to the sockets `to`; the payload fields are set by the caller.
Msg(ev, to) ==
    [ev |-> ev, to |-> to, roomId |-> Undefined, queue |-> UndefinedQueue,
     song |-> Undefined, volume |-> 0, state |-> NoState, text |-> Undefined]

\* Mutant of QueueUpdated: the snapshot is taken before the handler's change.
QueueUpdatedStale(roomId, room) ==
    [Msg("queue-updated", IoTo(roomId)) EXCEPT
        !.queue = IF roomId \in DOMAIN rooms THEN rooms[roomId].queue
                  ELSE inherited[roomId].queue]

\* io.to(roomId).emit('queue-updated', rooms[roomId].queue), where room is
\* rooms[roomId] as the handler has just left it.
QueueUpdated(roomId, room) ==
    [Msg("queue-updated", IoTo(roomId)) EXCEPT !.queue = room.queue]

\* io.to(roomId).emit('play-song', rooms[roomId].currentSong)
PlaySong(roomId, room) ==
    [Msg("play-song", IoTo(roomId)) EXCEPT !.song = room.currentSong]

\* Mutant of NextEmits: the two emit lines in the other order.
NextEmitsSwapped(roomId, room) ==
    <<QueueUpdated(roomId, room), PlaySong(roomId, room)>>

\* request-next on a non-empty queue: the two broadcasts, in order.
NextEmits(roomId, room) == <<PlaySong(roomId, room), QueueUpdated(roomId, room)>>

\* Mutant of Ended: the assignment of null is left out.
EndedKeepsSong(room) == room

\* request-next on an empty queue: rooms[roomId].currentSong = null.
Ended(room) == [room EXCEPT !.currentSong = Null]

\* Mutant of Cleared: the room is reset as create-room builds it, so the
\* song that is playing is forgotten too.
ClearedAll(room) == [room EXCEPT !.queue = <<>>, !.currentSong = Null]

\* clear-queue: rooms[roomId].queue = [].
Cleared(room) == [room EXCEPT !.queue = <<>>]

\* Mutant of StatePayload: currentTime is filled from duration.
StatePayloadSlip(state) ==
    [isPlaying |-> state.isPlaying, volume |-> state.volume,
     currentTime |-> state.duration, duration |-> state.duration]

\* player-state: the relayed object { isPlaying, volume, currentTime, duration }.
StatePayload(state) ==
    [isPlaying |-> state.isPlaying, volume |-> state.volume,
     currentTime |-> state.currentTime, duration |-> state.duration]

\* Mutant of NotFound: join-room stays silent, like the other handlers.
NotFoundSilent(s) == <<>>

\* join-room, no room found: socket.emit('error', 'Room not found').
NotFound(s) == <<[Msg("error", {s}) EXCEPT !.text = "Room not found"]>>

\* rooms[roomId] = rec, or the same assignment through an inherited object.
Store(id, rec) ==
    IF id \in DOMAIN rooms
    THEN rooms' = [rooms EXCEPT ![id] = rec] /\ UNCHANGED inherited
    ELSE inherited' = [inherited EXCEPT ![id] = rec] /\ UNCHANGED rooms

\* The sockets `to` receive queue q as the queue of room r (room-created,
\* room-joined, full-sync or queue-updated); only created rooms are tracked.
Delivered(r, to, q) ==
    IF r \in GenIds
    THEN view' = [s \in Sockets |-> IF s \in to THEN [view[s] EXCEPT ![r] = q]
                                    ELSE view[s]]
    ELSE UNCHANGED view

\* The songs the handler announced by play-song, in order.
Announced ==
    LET ps == SelectSeq(out', LAMBDA m : m.ev = "play-song" /\ m.song \in Songs)
    IN  [i \in 1 .. Len(ps) |-> ps[i].song]

\* The logs of room r become a and p (only created rooms are logged).
Logs(r, a, p) ==
    IF r \in GenIds
    THEN addLog' = [addLog EXCEPT ![r] = a] /\ playLog' = [playLog EXCEPT ![r] = p]
    ELSE UNCHANGED <<addLog, playLog>>

\* Every handler: one more event handled.
Handled(ev) ==
    /\ last' = ev
    /\ nEvents' = nEvents + 1

\* A handler may run for socket s.
Ready(s) == ~crashed /\ conn[s] = "connected" /\ nEvents < MaxEvents

\* The handler's condition was false: it did nothing.
Ignore(ev) ==
    /\ out' = <<>>
    /\ Handled(ev)
    /\ UNCHANGED <<conn, groups, rooms, inherited, crashed, view, addLog, playLog>>

\* The handler threw a TypeError: nothing was changed or emitted before it.
Throw(ev) ==
    /\ crashed' = TRUE
    /\ out' = <<>>
    /\ Handled(ev)
    /\ UNCHANGED <<conn, groups, rooms, inherited, view, addLog, playLog>>

\* ---------------------------------------------------------------- init ----
Init ==
    /\ conn = [s \in Sockets |-> "new"]
    /\ groups = [g \in GroupNames |-> {}]
    /\ rooms = [r \in {} |-> Undefined]
    /\ inherited = [k \in ProtoKeys |->
                       [host |-> Undefined, queue |-> UndefinedQueue,
                        currentSong |-> Undefined]]
    /\ crashed = FALSE
    /\ last = Event("listen", Undefined, Undefined)
    /\ out = <<>>
    /\ nEvents = 0
    /\ view = [s \in Sockets |-> [r \in GenIds |-> UndefinedQueue]]
    /\ addLog = [r \in GenIds |-> <<>>]
    /\ playLog = [r \in GenIds |-> <<>>]


\* ------------------------------------------------------------- actions ----
\* io.on('connection'): the transport opens the next socket, which joins
\* the group named by its own id.
Connection(s) ==
    /\ ~crashed
    /\ conn[s] = "new"
    /\ \A i, j \in DOMAIN SocketIds :
          (SocketIds[i] = s /\ j < i) => conn[SocketIds[j]] # "new"
    /\ conn' = [conn EXCEPT ![s] = "connected"]
    /\ groups' = [groups EXCEPT ![s] = @ \cup {s}]
    /\ last' = Event("connection", s, Undefined)
    /\ out' = <<>>
    /\ UNCHANGED <<rooms, inherited, crashed, nEvents, view, addLog, playLog>>

\* The ids generateRoomId may return: any of them, taken or not.
GenerateRoomId == GenIds

CreateRoom(s) ==
    /\ Ready(s)
    /\ \E roomId \in GenerateRoomId :
        /\ rooms' = [r \in DOMAIN rooms \cup {roomId} |->
                        IF r = roomId
                        THEN [host |-> s, queue |-> <<>>, currentSong |-> Null]
                        ELSE rooms[r]]
        /\ groups' = [groups EXCEPT ![roomId] = @ \cup {s}]
        /\ out' = <<[Msg("room-created", {s}) EXCEPT !.roomId = roomId]>>
        /\ Delivered(roomId, {s}, <<>>)
        /\ Logs(roomId, <<>>, <<>>)
        /\ Handled(Event("create-room", s, Undefined))
    /\ UNCHANGED <<conn, inherited, crashed>>

JoinRoom(s, roomId) ==
    /\ Ready(s)
    /\ IF HasRoom(roomId)
       THEN /\ groups' = [groups EXCEPT ![roomId] = @ \cup {s}]
            /\ out' = <<[Msg("room-joined", {s}) EXCEPT
                            !.roomId = roomId,
                            !.queue = Room(roomId).queue,
                            !.song = Room(roomId).currentSong]>>
            /\ Delivered(roomId, {s}, Room(roomId).queue)
       ELSE /\ out' = NotFound(s)
            /\ UNCHANGED <<groups, view>>
    /\ Handled(Event("join-room", s, roomId))
    /\ UNCHANGED <<conn, rooms, inherited, crashed, addLog, playLog>>

RequestSync(s, roomId) ==
    /\ Ready(s)
    /\ IF HasRoom(roomId)
       THEN /\ out' = <<[Msg("full-sync", {s}) EXCEPT
                            !.queue = Room(roomId).queue,
                            !.song = Room(roomId).currentSong]>>
            /\ Delivered(roomId, {s}, Room(roomId).queue)
       ELSE /\ out' = <<>>
            /\ UNCHANGED view
    /\ Handled(Event("request-sync", s, roomId))
    /\ UNCHANGED <<conn, groups, rooms, inherited, crashed, addLog, playLog>>

AddToQueue(s, roomId, song) ==
    LET ev == [Event("add-to-queue", s, roomId) EXCEPT !.song = song] IN
    /\ Ready(s)
    /\ IF ~HasRoom(roomId)
       THEN Ignore(ev)
       ELSE IF Room(roomId).queue = UndefinedQueue
       THEN Throw(ev)
       ELSE LET room == [Room(roomId) EXCEPT !.queue = Push(@, song)] IN
            /\ Len(Room(roomId).queue) < MaxQueue
            /\ Store(roomId, room)
            /\ out' = <<QueueUpdated(roomId, room)>>
            /\ Delivered(roomId, out'[1].to, out'[1].queue)
            /\ Logs(roomId, Append(addLog[roomId], song), playLog[roomId])
            /\ Handled(ev)
            /\ UNCHANGED <<conn, groups, crashed>>

PlayerState(s, roomId, state) ==
    /\ Ready(s)
    /\ out' = IF HasRoom(roomId)
              THEN <<[Msg("player-state", SocketTo(s, roomId)) EXCEPT
                         !.state = StatePayload(state)]>>
              ELSE <<>>
    /\ Handled([Event("player-state", s, roomId) EXCEPT !.state = state])
    /\ UNCHANGED <<conn, groups, rooms, inherited, crashed, view, addLog, playLog>>

RequestNext(s, roomId) ==
    LET ev == Event("request-next", s, roomId) IN
    /\ Ready(s)
    /\ IF ~HasRoom(roomId)
       THEN Ignore(ev)
       ELSE IF Room(roomId).queue = UndefinedQueue
       THEN Throw(ev)
       ELSE IF Len(Room(roomId).queue) > 0
       THEN LET head == Shift(Room(roomId).queue)
                room == [Room(roomId) EXCEPT !.currentSong = head.item,
                                             !.queue = head.rest]
            IN
            /\ Store(roomId, room)
            /\ out' = NextEmits(roomId, room)
            /\ Delivered(roomId, out'[2].to, out'[2].queue)
            /\ Logs(roomId, addLog[roomId], playLog[roomId] \o Announced)
            /\ Handled(ev)
            /\ UNCHANGED <<conn, groups, crashed>>
       ELSE /\ Store(roomId, Ended(Room(roomId)))
            /\ out' = <<[Msg("play-song", IoTo(roomId)) EXCEPT !.song = Null]>>
            /\ Handled(ev)
            /\ UNCHANGED <<conn, groups, crashed, view, addLog, playLog>>

\* Mutant of SkipSong: host failover; when nobody is left in the host's
\* group, force-skip goes to the room's group instead.
SkipSongFailover(s, roomId) ==
    /\ Ready(s)
    /\ out' = IF HasRoom(roomId)
              THEN IF IoTo(Room(roomId).host) = {}
                   THEN <<Msg("force-skip", IoTo(roomId))>>
                   ELSE <<Msg("force-skip", SocketTo(s, Room(roomId).host))>>
              ELSE <<>>
    /\ Handled(Event("skip-song", s, roomId))
    /\ UNCHANGED <<conn, groups, rooms, inherited, crashed, view, addLog, playLog>>

SkipSong(s, roomId) ==
    /\ Ready(s)
    /\ out' = IF HasRoom(roomId)
              THEN <<Msg("force-skip", SocketTo(s, Room(roomId).host))>>
              ELSE <<>>
    /\ Handled(Event("skip-song", s, roomId))
    /\ UNCHANGED <<conn, groups, rooms, inherited, crashed, view, addLog, playLog>>

ClearQueue(s, roomId) ==
    LET ev == Event("clear-queue", s, roomId) IN
    /\ Ready(s)
    /\ IF ~HasRoom(roomId)
       THEN Ignore(ev)
       ELSE LET room == Cleared(Room(roomId)) IN
            /\ Store(roomId, room)
            /\ out' = <<QueueUpdated(roomId, room)>>
            /\ Delivered(roomId, out'[1].to, out'[1].queue)
            /\ Logs(roomId, <<>>, <<>>)
            /\ Handled(ev)
            /\ UNCHANGED <<conn, groups, crashed>>

RemoveFromQueue(s, roomId, index) ==
    LET ev == [Event("remove-from-queue", s, roomId) EXCEPT !.index = index]
        idx == ParseInt(index)
    IN
    /\ Ready(s)
    /\ IF ~(HasRoom(roomId) /\ NotNegative(idx))
       THEN Ignore(ev)
       ELSE IF Room(roomId).queue = UndefinedQueue
       THEN Throw(ev)
       ELSE IF Below(idx, Len(Room(roomId).queue))
       THEN LET room == [Room(roomId) EXCEPT !.queue = Splice(@, Pos(idx)).rest] IN
            /\ Store(roomId, room)
            /\ out' = <<QueueUpdated(roomId, room)>>
            /\ Delivered(roomId, out'[1].to, out'[1].queue)
            /\ Logs(roomId, room.queue, <<>>)
            /\ Handled(ev)
            /\ UNCHANGED <<conn, groups, crashed>>
       ELSE Ignore(ev)

PlaySpecific(s, roomId, index) ==
    LET ev == [Event("play-specific", s, roomId) EXCEPT !.index = index]
        idx == ParseInt(index)
    IN
    /\ Ready(s)
    /\ IF ~(HasRoom(roomId) /\ NotNegative(idx))
       THEN Ignore(ev)
       ELSE IF Room(roomId).queue = UndefinedQueue
       THEN Throw(ev)
       ELSE IF Below(idx, Len(Room(roomId).queue))
       THEN LET taken == Splice(Room(roomId).queue, Pos(idx))
                room == [Room(roomId) EXCEPT !.queue = taken.rest,
                                             !.currentSong = taken.item]
            IN
            /\ Store(roomId, room)
            /\ out' = <<PlaySong(roomId, room), QueueUpdated(roomId, room)>>
            /\ Delivered(roomId, out'[2].to, out'[2].queue)
            /\ Logs(roomId, room.queue, <<>>)
            /\ Handled(ev)
            /\ UNCHANGED <<conn, groups, crashed>>
       ELSE Ignore(ev)

TogglePlay(s, roomId) ==
    /\ Ready(s)
    /\ out' = IF HasRoom(roomId)
              THEN <<Msg("toggle-play", SocketTo(s, Room(roomId).host))>>
              ELSE <<>>
    /\ Handled(Event("toggle-play", s, roomId))
    /\ UNCHANGED <<conn, groups, rooms, inherited, crashed, view, addLog, playLog>>

SetVolume(s, roomId, volume) ==
    /\ Ready(s)
    /\ out' = IF HasRoom(roomId)
              THEN <<[Msg("set-volume", SocketTo(s, Room(roomId).host)) EXCEPT
                         !.volume = volume]>>
              ELSE <<>>
    /\ Handled([Event("set-volume", s, roomId) EXCEPT !.volume = volume])
    /\ UNCHANGED <<conn, groups, rooms, inherited, crashed, view, addLog, playLog>>

\* Mutant of Disconnect: the clean-up the handler leaves out is done, and
\* the rooms the socket hosted are deleted.
DisconnectReaping(s) ==
    /\ Ready(s)
    /\ conn' = [conn EXCEPT ![s] = "closed"]
    /\ groups' = [g \in DOMAIN groups |-> groups[g] \ {s}]
    /\ rooms' = [r \in {x \in DOMAIN rooms : rooms[x].host # s} |-> rooms[r]]
    /\ out' = <<>>
    /\ Handled(Event("disconnect", s, Undefined))
    /\ UNCHANGED <<inherited, crashed, view, addLog, playLog>>

\* socket.on('disconnect'): the handler only logs; the transport has taken
\* the socket out of every group it had joined.
Disconnect(s) ==
    /\ Ready(s)
    /\ conn' = [conn EXCEPT ![s] = "closed"]
    /\ groups' = [g \in DOMAIN groups |-> groups[g] \ {s}]
    /\ out' = <<>>
    /\ Handled(Event("disconnect", s, Undefined))
    /\ UNCHANGED <<rooms, inherited, crashed, view, addLog, playLog>>

Next ==
    \E s \in Sockets :
        \/ Connection(s)
        \/ CreateRoom(s)
        \/ Disconnect(s)
        \/ \E roomId \in RoomArgs :
            \/ JoinRoom(s, roomId)
            \/ RequestSync(s, roomId)
            \/ \E song \in Songs : AddToQueue(s, roomId, song)
            \/ \E state \in PlayerStates : PlayerState(s, roomId, state)
            \/ RequestNext(s, roomId)
            \/ SkipSong(s, roomId)
            \/ ClearQueue(s, roomId)
            \/ \E index \in IndexInputs : RemoveFromQueue(s, roomId, index)
            \/ \E index \in IndexInputs : PlaySpecific(s, roomId, index)
            \/ TogglePlay(s, roomId)
            \/ \E volume \in Volumes : SetVolume(s, roomId, volume)

Spec == Init /\ [][Next]_vars

\* ------------------------------------------------------------- claims ----
\* Inbound events that carry a room id.
RoomEvents ==
    {"join-room", "request-sync", "add-to-queue", "player-state", "request-next",
     "skip-song", "clear-queue", "remove-from-queue", "play-specific",
     "toggle-play", "set-volume"}

\* What connection s receives of the emissions o, in order: event and payload.
Payloads(o, s) ==
    LET mine == SelectSeq(o, LAMBDA m : s \in m.to)
    IN  [i \in 1 .. Len(mine) |->
            [ev |-> mine[i].ev, song |-> mine[i].song, queue |-> mine[i].queue]]

\* The number halves/2 (or NaN) lies outside [0, n).
Outside(x, n) == x.nan \/ x.halves < 0 \/ x.halves >= 2 * n

\* C1: in every created room, the songs announced by play-song since the
\* queue was last reset, followed by the songs still queued, are the songs
\* added since then in the order they were added; and the song a request-next
\* announces is the room's currentSong.
FifoOrder ==
    \A r \in DOMAIN rooms :
        /\ playLog[r] \o rooms[r].queue = addLog[r]
        /\ (last.type = "request-next" /\ last.roomId = r /\ Len(out) = 2)
              => /\ playLog[r] # <<>>
                 /\ rooms[r].currentSong = playLog[r][Len(playLog[r])]

\* C1 witness: A then B were added, request-next announced A and B is next.
FifoWitness ==
    /\ last.type = "request-next"
    /\ last.roomId \in DOMAIN rooms
    /\ addLog[last.roomId] = <<"A", "B">>
    /\ playLog[last.roomId] = <<"A">>
    /\ rooms[last.roomId].queue = <<"B">>
    /\ rooms[last.roomId].currentSong = "A"

\* C2: every queue-updated a handler emits goes to the room's group and
\* carries the queue the room stores once the handler is done.
NoStaleBroadcast ==
    \A i \in 1 .. Len(out) :
        out[i].ev = "queue-updated"
            => /\ HasRoom(last.roomId)
               /\ out[i].queue = Room(last.roomId).queue
               /\ out[i].to = groups[last.roomId]

\* C2 witness: the second add-to-queue broadcast the two-song queue to a room
\* of two members.
NoStaleWitness ==
    /\ last.type = "add-to-queue"
    /\ last.roomId \in DOMAIN rooms
    /\ Len(out) = 1
    /\ out[1].ev = "queue-updated"
    /\ Len(out[1].queue) = 2
    /\ out[1].to = Sockets

\* C3: skip-song, toggle-play and set-volume on a created room emit exactly
\* one message, force-skip / toggle-play / set-volume, and it reaches nobody
\* but the recorded host, and not the host when the host is the sender.
HostEvents == {"skip-song", "toggle-play", "set-volume"}

HostOnly ==
    (last.type \in HostEvents /\ last.roomId \in DOMAIN rooms)
        => /\ Len(out) = 1
           /\ out[1].ev = (IF last.type = "skip-song" THEN "force-skip" ELSE last.type)
           /\ out[1].to \subseteq ({rooms[last.roomId].host} \ {last.sender})

\* C3 witness: a joined member that is not the host sent skip-song and the
\* host alone received force-skip.
HostOnlyWitness ==
    /\ last.type = "skip-song"
    /\ last.roomId \in DOMAIN rooms
    /\ last.sender \in groups[last.roomId]
    /\ Len(out) = 1
    /\ out[1].to = {rooms[last.roomId].host}

\* C4: every connection in a created room's group holds, as the queue it
\* last received for that room, the queue the server stores for it.
MembersHoldQueue ==
    \A r \in DOMAIN rooms : \A s \in groups[r] : view[s][r] = rooms[r].queue

\* C5: remove-from-queue and play-specific on a created room with an index
\* outside [0, len(queue)) change no room and emit nothing.
OutOfRangeIgnored ==
    [][(/\ last'.type \in {"remove-from-queue", "play-specific"}
        /\ last'.roomId \in DOMAIN rooms
        /\ Outside(last'.index, Len(rooms[last'.roomId].queue)))
          => (rooms' = rooms /\ out' = <<>>)]_vars

\* C6: an event naming an id under which no room was created never throws
\* and leaves the room store as it was.
MissingRoomHarmless ==
    [][(last'.type \in RoomEvents /\ last'.roomId \notin DOMAIN rooms)
          => (~crashed' /\ rooms' = rooms)]_vars

\* C7: join-room with an id under which no room was created sends
\* error("Room not found") to the sender alone, joins the sender to no group
\* and changes no room state.
JoinMissingRoom ==
    [][(last'.type = "join-room" /\ last'.roomId \notin DOMAIN rooms)
          => /\ out' = <<[Msg("error", {last'.sender}) EXCEPT
                             !.text = "Room not found"]>>
             /\ groups' = groups
             /\ rooms' = rooms
             /\ inherited' = inherited]_vars

\* C8 as claimed: every room-addressed event naming an id under which no room
\* exists sends an error event to its sender.
NotFoundSurfaced ==
    (last.type \in RoomEvents /\ last.roomId \notin DOMAIN rooms)
        => \E i \in 1 .. Len(out) : out[i].ev = "error" /\ last.sender \in out[i].to

\* C8 as amended: only join-room surfaces a room that rooms[roomId] does not
\* find, by error("Room not found") to its sender alone; the other ten
\* room-addressed events then emit nothing; no other event emits an error.
NotFoundOnlyOnJoin ==
    /\ (last.type = "join-room" /\ ~HasRoom(last.roomId))
          => out = <<[Msg("error", {last.sender}) EXCEPT !.text = "Room not found"]>>
    /\ (last.type \in RoomEvents \ {"join-room"} /\ ~HasRoom(last.roomId))
          => out = <<>>
    /\ \A i \in 1 .. Len(out) :
          out[i].ev = "error" => (last.type = "join-room" /\ ~HasRoom(last.roomId))

\* C8 witness: while a room exists, a request-sync naming an id that finds
\* no room was answered with nothing.
NotFoundWitness ==
    /\ last.type = "request-sync"
    /\ ~HasRoom(last.roomId)
    /\ DOMAIN rooms # {}
    /\ out = <<>>

\* C9: request-next on a created room whose queue is empty sets currentSong
\* to null, leaves the queue empty and emits play-song(null) to the room's
\* group and nothing else.
NextOnEmpty ==
    [][(/\ last'.type = "request-next"
        /\ last'.roomId \in DOMAIN rooms
        /\ rooms[last'.roomId].queue = <<>>)
          => /\ rooms'[last'.roomId].currentSong = Null
             /\ rooms'[last'.roomId].queue = <<>>
             /\ Len(out') = 1
             /\ out'[1].ev = "play-song"
             /\ out'[1].song = Null
             /\ out'[1].to = groups[last'.roomId]]_vars

\* C9 witness: a song had been played, and the next request-next found the
\* queue empty and announced play-song(null) to the member.
NextOnEmptyWitness ==
    /\ last.type = "request-next"
    /\ last.roomId \in DOMAIN rooms
    /\ playLog[last.roomId] # <<>>
    /\ Len(out) = 1
    /\ out[1].song = Null
    /\ out[1].to # {}
    /\ rooms[last.roomId].currentSong = Null

\* C10: request-next on a created room whose queue is not empty takes the
\* head off the queue, makes it currentSong, and every member of the room's
\* group receives play-song(head) and then queue-updated(rest), and nothing
\* else.
NextOnNonEmpty ==
    [][(/\ last'.type = "request-next"
        /\ last'.roomId \in DOMAIN rooms
        /\ rooms[last'.roomId].queue # <<>>)
          => LET r == last'.roomId
                 q == rooms[r].queue
             IN  /\ rooms'[r].currentSong = Head(q)
                 /\ rooms'[r].queue = Tail(q)
                 /\ \A s \in groups[r] :
                       Payloads(out', s) =
                          <<[ev |-> "play-song", song |-> Head(q),
                             queue |-> UndefinedQueue],
                            [ev |-> "queue-updated", song |-> Undefined,
                             queue |-> Tail(q)]>>
                 /\ \A i \in 1 .. Len(out') : out'[i].to = groups[r]]_vars

\* C10 witness: request-next took the only song off the queue of a room with
\* two members, who both got play-song(song) and then queue-updated([]).
NextOnNonEmptyWitness ==
    /\ last.type = "request-next"
    /\ last.roomId \in DOMAIN rooms
    /\ Len(out) = 2
    /\ out[1].to = Sockets
    /\ out[1].song \in Songs
    /\ out[2].queue = <<>>

\* C11: clear-queue on a created room leaves the room with an empty queue
\* and with the currentSong and host it had, and emits queue-updated([]) to
\* the room's group and nothing else.
ClearKeepsSong ==
    [][(last'.type = "clear-queue" /\ last'.roomId \in DOMAIN rooms)
          => LET r == last'.roomId
             IN  /\ rooms'[r].queue = <<>>
                 /\ rooms'[r].currentSong = rooms[r].currentSong
                 /\ rooms'[r].host = rooms[r].host
                 /\ out' = <<[Msg("queue-updated", groups[r]) EXCEPT
                                 !.queue = <<>>]>>]_vars

\* C11 witness: the queue of a room that is playing a song was cleared; the
\* song is still current and the member got the empty queue.
ClearKeepsSongWitness ==
    /\ last.type = "clear-queue"
    /\ last.roomId \in DOMAIN rooms
    /\ rooms[last.roomId].currentSong \in Songs
    /\ rooms[last.roomId].queue = <<>>
    /\ Len(out) = 1
    /\ out[1].queue = <<>>
    /\ rooms[last.roomId].host \in out[1].to

\* C12: the host recorded for a created room never changes, whatever event
\* is handled next (a further create-room and the host's disconnect included).
HostNeverChanges ==
    [][\A r \in DOMAIN rooms : rooms'[r].host = rooms[r].host]_vars

\* C13: the id a create-room announces names no room that exists already,
\* and the step leaves every existing room as it was.
FreshRoomId ==
    [][(last'.type = "create-room")
          => /\ out'[1].roomId \notin DOMAIN rooms
             /\ \A r \in DOMAIN rooms : rooms'[r] = rooms[r]]_vars

\* The sequence q without its element at position p.
WithoutPos(q, p) == SubSeq(q, 1, p - 1) \o SubSeq(q, p + 1, Len(q))

\* C14: no room exists at the start, and every step leaves each created
\* room's currentSong either null, or as it was, or equal to an item that a
\* request-next or play-specific for that room has just moved out of that
\* room's queue; so currentSong is never an item that was not in that queue.
CurrentSongFromQueue ==
    [][\A r \in DOMAIN rooms' :
          LET cur == rooms'[r].currentSong IN
          \/ cur = Null
          \/ r \in DOMAIN rooms /\ cur = rooms[r].currentSong
          \/ /\ r \in DOMAIN rooms
             /\ last'.type \in {"request-next", "play-specific"}
             /\ last'.roomId = r
             /\ \E p \in 1 .. Len(rooms[r].queue) :
                   /\ rooms[r].queue[p] = cur
                   /\ rooms'[r].queue = WithoutPos(rooms[r].queue, p)]_vars

\* C14 witness: play-specific moved the first of two queued songs out of
\* the queue and made it the current song.
CurrentSongWitness ==
    /\ last.type = "play-specific"
    /\ last.roomId \in DOMAIN rooms
    /\ last.index = Num(0)
    /\ rooms[last.roomId].currentSong = "A"
    /\ rooms[last.roomId].queue = <<"B">>

\* Events whose handlers only read the room store, and disconnect.
ReadOnlyEvents ==
    {"request-sync", "player-state", "skip-song", "toggle-play", "set-volume",
     "disconnect"}

\* C16: request-sync, player-state, skip-song, toggle-play, set-volume and
\* disconnect leave the room store exactly as it was: no room is added,
\* changed or removed, not even when the host disconnects.
StoreUntouched ==
    [][(last'.type \in ReadOnlyEvents)
          => (rooms' = rooms /\ inherited' = inherited)]_vars

\* C16 witness: the host of a room with a queued song has disconnected and
\* the room is still stored with its queue.
StoreUntouchedWitness ==
    /\ last.type = "disconnect"
    /\ \E r \in DOMAIN rooms :
          /\ rooms[r].host = last.sender
          /\ conn[rooms[r].host] = "closed"
          /\ rooms[r].queue # <<>>

\* C17: player-state on a created room is relayed as one player-state
\* message carrying isPlaying, volume, currentTime and duration as sent, to
\* exactly the connections of the room's group other than the sender.
PlayerStateRelayed ==
    (last.type = "player-state" /\ last.roomId \in DOMAIN rooms)
        => out = <<[Msg("player-state", groups[last.roomId] \ {last.sender})
                       EXCEPT !.state = last.state]>>

\* C17 witness: a member of a two-member room reported that it is playing;
\* the other member received the report and the sender did not.
PlayerStateWitness ==
    /\ last.type = "player-state"
    /\ last.roomId \in DOMAIN rooms
    /\ last.state.isPlaying
    /\ groups[last.roomId] = Sockets
    /\ Len(out) = 1
    /\ out[1].to = Sockets \ {last.sender}
    /\ out[1].state.currentTime = 3

\* C18: while the connection recorded as a room's host is closed, a
\* skip-song, toggle-play or set-volume for that room delivers nothing to
\* anybody; and every step that is not a create-room (joins, connections
\* and all other events) leaves that host recorded, closed, and its group
\* empty, so that nothing is delivered later either.
HostGoneForGood ==
    [][\A r \in DOMAIN rooms :
          (conn[rooms[r].host] = "closed")
             => /\ (last'.type \in HostEvents /\ last'.roomId = r)
                      => \A i \in 1 .. Len(out') : out'[i].to = {}
                /\ (last'.type # "create-room")
                      => /\ rooms'[r].host = rooms[r].host
                         /\ conn'[rooms[r].host] = "closed"
                         /\ groups'[rooms[r].host] = {}]_vars

\* C18 witness: after the host of a room had disconnected, a member that is
\* still joined sent skip-song for the room, and force-skip reached nobody.
HostGoneWitness ==
    /\ last.type = "skip-song"
    /\ last.roomId \in DOMAIN rooms
    /\ conn[rooms[last.roomId].host] = "closed"
    /\ last.sender \in groups[last.roomId]
    /\ Len(out) = 1
    /\ out[1].ev = "force-skip"
    /\ out[1].to = {}

\* The number halves/2 is an integer in [0, n).
InRange(x, n) == ~x.nan /\ x.halves % 2 = 0 /\ x.halves >= 0 /\ x.halves < 2 * n

IsolatedEvents ==
    {"add-to-queue", "request-next", "clear-queue", "remove-from-queue",
     "play-specific", "player-state"} \cup HostEvents

\* C20: an event addressed to room R leaves every other room (and every
\* other object rooms[k] can find) exactly as it was, and whatever it emits
\* goes to connections of R's group only.
RoomIsolation ==
    [][(last'.type \in IsolatedEvents)
          => LET R == last'.roomId
             IN  /\ \A r \in DOMAIN rooms \ {R} : rooms'[r] = rooms[r]
                 /\ \A k \in DOMAIN inherited \ {R} : inherited'[k] = inherited[k]
                 /\ \A i \in 1 .. Len(out') : out'[i].to \subseteq groups[R]]_vars

\* C20 witness: two rooms exist with one member each; a song was added to
\* one of them, its member got queue-updated, and the other room's queue is
\* still empty and its member got nothing.
RoomIsolationWitness ==
    /\ last.type = "add-to-queue"
    /\ last.roomId \in DOMAIN rooms
    /\ Len(out) = 1
    /\ out[1].to = {last.sender}
    /\ \E r \in DOMAIN rooms \ {last.roomId} :
          /\ rooms[r].queue = <<>>
          /\ groups[r] # {}
          /\ groups[r] \cap groups[last.roomId] = {}

====
